---- MODULE Spec2Model ----
(***************************************************************************)
(* The linking core of src/links/linker.js: the eager pipeline             *)
(* (linkComponents), its deferred twin (getAllComponentsLinks), re-link    *)
(* propagation, manifest-main patching and linkAllToNodeModules, over a    *)
(* registry of components with placement states and a disk of files and    *)
(* node_modules symlinks.                                                  *)
(*                                                                         *)
(* linker.js only orchestrates.  The generators it calls (link-generator,  *)
(* node-modules-linker, package-json, the consumer's registry queries) are *)
(* modelled from the design document, sections 3, 4 and 6.                 *)
(***************************************************************************)
EXTENDS Integers, Sequences, FiniteSets, TLC

VARIABLES
    origin,           \* registry: component id -> placement state
    fsFiles,          \* disk: path -> file content (written paths only)
    fsLinks,          \* disk: node_modules entry name -> symlink target
    pendingManifest,  \* component.dataToPersist: the pending package.json, per component
    pc,               \* position of the one control flow
    call,             \* the call in progress (or just finished) and its arguments
    todo,             \* indices of the current step's operations not yet performed
    log,              \* the operations the call performed (or computed), in order
    ret,              \* what the finished call returned or threw
    disk0,            \* the disk and pending manifests as they were when the call started
    loaded,           \* components loaded by consumer.loadComponents in this call
    calls,            \* number of calls made so far
    moves,            \* the components whose placement changed, in order
    failure,          \* the operation whose failure rejected the call, if any
    add               \* addAction (api/consumer/lib/add.js): the call and the bitmap

linkerVars == <<origin, fsFiles, fsLinks, pendingManifest, pc, call, todo, log, ret,
                disk0, loaded, calls, moves, failure>>

vars == <<linkerVars, add>>

(***************************************************************************)
(* Bounds of the model.                                                    *)
(***************************************************************************)
MaxWritten == 2
MaxDeps == 2
MaxCwd == 1
MaxCalls == 1
MaxMoves == 1

(***************************************************************************)
(* Components, placement and dependency edges (design document, section 3).*)
(***************************************************************************)
Comps == {"a", "b", "c"}

CompOrder == <<"a", "b", "c">>

Origins == {"AUTHORED", "IMPORTED", "NESTED"}

None == "none"

\* b imports a, c imports b: c is a transitive dependent of a.
Dependencies(c) ==
    CASE c = "b" -> {"a"}
      [] c = "c" -> {"b"}
      [] OTHER -> {}

\* The name of the redirect file the literal import specifier maps to:
\* a is imported as './index', b as './b', c as './c'.
LinkFileName(t) ==
    CASE t = "a" -> "index.js"
      [] t = "b" -> "b.js"
      [] OTHER -> "c.js"

MainFile(c) ==
    CASE c = "a" -> "src/a.js"
      [] c = "b" -> "src/b.js"
      [] OTHER -> "src/c.js"

\* a and b carry build output, c does not.
HasDists(c) == c \in {"a", "b"}

SeqToSet(s) == {s[i] : i \in 1..Len(s)}

BoundedSeqs(S, n) == UNION {[1..k -> S] : k \in 0..n}

RECURSIVE Flatten(_)
Flatten(ss) == IF ss = <<>> THEN <<>> ELSE Head(ss) \o Flatten(Tail(ss))

\* The directory a component's files live in.
Dir(c) == <<origin[c], c>>

\* componentMap.rootDir: only imported and nested components have one.
RootDir(c) == IF origin[c] = "AUTHORED" THEN None ELSE Dir(c)

DependenciesSeq(c) == SelectSeq(CompOrder, LAMBDA t : t \in Dependencies(c))

(***************************************************************************)
(* File contents.                                                          *)
(***************************************************************************)
\* How a dependent must refer to t under t's current placement.
ReferenceForm(t) == IF origin[t] = "NESTED" THEN "relative-path" ELSE "package-name"

LinkContent(t, npm) ==
    [kind |-> "link", ref |-> ReferenceForm(t),
     target |-> IF origin[t] = "NESTED" THEN Dir(t) ELSE <<"node_modules", t>>,
     npm |-> npm]

CalculateMainDistFile(c) == IF HasDists(c) THEN <<"dist", MainFile(c)>> ELSE <<"src", MainFile(c)>>

EntryPointContent(c) == [kind |-> "entry", main |-> CalculateMainDistFile(c)]

NoDependencies == [t \in Comps |-> None]

\* A manifest object: its fields.  'dependencies' gives, per dependency, the
\* syntax the dependency is declared in.
ManifestObject(c) ==
    [name |-> c, main |-> <<"src", MainFile(c)>>,
     dependencies |-> [t \in Comps |-> IF t \in Dependencies(c) THEN ReferenceForm(t) ELSE None]]

JsonStringify(obj) ==
    [kind |-> "manifest", name |-> obj.name, main |-> obj.main, dependencies |-> obj.dependencies]

JsonParse(text) ==
    [name |-> text.name, main |-> text.main, dependencies |-> text.dependencies]

\* The imported module '../consumer/component/package-json' as an object: its
\* properties are functions, which JSON.stringify leaves out.
PackageJsonModule == [name |-> None, main |-> <<None, None>>, dependencies |-> NoDependencies]

ManifestPath(dir) == <<dir, "package.json">>

EntryPointPath(c) == <<Dir(c), "index.js">>

(***************************************************************************)
(* The disk.                                                               *)
(***************************************************************************)
WriteFile(files, f) ==
    [p \in (DOMAIN files) \cup {f.path} |-> IF p = f.path THEN f.content ELSE files[p]]

RECURSIVE ApplyFiles(_, _)
ApplyFiles(files, fs) ==
    IF fs = <<>> THEN files ELSE ApplyFiles(WriteFile(files, Head(fs)), Tail(fs))

MakeSymlink(links, s) ==
    [n \in (DOMAIN links) \cup {s.name} |-> IF n = s.name THEN s.target ELSE links[n]]

RECURSIVE ApplySymlinks(_, _)
ApplySymlinks(links, ss) ==
    IF ss = <<>> THEN links ELSE ApplySymlinks(MakeSymlink(links, Head(ss)), Tail(ss))

EmptyDisk == [p \in {} |-> None]

(***************************************************************************)
(* The generators linker.js calls (design document, section 4).            *)
(***************************************************************************)
\* 4.1: one redirect file per dependency edge of each listed component, at
\* the dependent's directory under the name of the import specifier.
ComponentDependenciesLinks(c, npm) ==
    [j \in 1..Len(DependenciesSeq(c)) |->
        [filePath |-> <<Dir(c), LinkFileName(DependenciesSeq(c)[j])>>,
         content |-> LinkContent(DependenciesSeq(c)[j], npm)]]

GetComponentsDependenciesLinks(cwds, npm) ==
    Flatten([i \in 1..Len(cwds) |-> ComponentDependenciesLinks(cwds[i], npm)])

LinkFileLoad(outputFile) == [path |-> outputFile.filePath, content |-> outputFile.content]

\* 4.2: one entry-point file at the component's root.
GetEntryPointsForComponent(c) == <<[path |-> EntryPointPath(c), content |-> EntryPointContent(c)]>>

\* 4.4: one symlink per component, in the caller's order.
NodeModuleLinkerGetLinks(components) ==
    [files |-> <<>>,
     symlinks |-> [i \in 1..Len(components) |-> [name |-> components[i], target |-> Dir(components[i])]]]

\* 4.3: rewrite one attribute of the manifest materialized at rootDir.
UpdateAttribute(files, rootDir, attr, value) ==
    IF ManifestPath(rootDir) \in DOMAIN files
    THEN [files EXCEPT ![ManifestPath(rootDir)] =
              JsonStringify([JsonParse(@) EXCEPT ![attr] = value])]
    ELSE files

\* The direct dependents whatever their placement.
GetDependentsOfComponents(components) ==
    SelectSeq(CompOrder, LAMBDA d :
        /\ origin[d] # None
        /\ Dependencies(d) \cap SeqToSet(components) # {})

\* 4.5 and 6: the direct dependents, AUTHORED or IMPORTED, of the components.
GetAuthoredAndImportedDependentsOfComponents(components) ==
    SelectSeq(CompOrder, LAMBDA d :
        /\ origin[d] \in {"AUTHORED", "IMPORTED"}
        /\ Dependencies(d) \cap SeqToSet(components) # {})

\* 4.5 step (3): the dependents' manifests, read from disk and patched so that
\* each changed dependency is declared in the syntax of its new placement;
\* returned as files, scheduled for write with the rest of the ChangeSet.
ChangedManifest(files, d, components) ==
    [path |-> ManifestPath(RootDir(d)),
     content |-> JsonStringify(
        [JsonParse(files[ManifestPath(RootDir(d))]) EXCEPT
            !.dependencies = [t \in Comps |->
                IF t \in Dependencies(d) \cap SeqToSet(components)
                THEN ReferenceForm(t) ELSE @[t]]])]

HasManifestOnDisk(files, d) ==
    /\ RootDir(d) # None
    /\ ManifestPath(RootDir(d)) \in DOMAIN files

ChangeDependenciesToRelativeSyntax(files, dependents, components) ==
    LET withManifest == SelectSeq(dependents, LAMBDA d : HasManifestOnDisk(files, d))
    IN  [i \in 1..Len(withManifest) |-> ChangedManifest(files, withManifest[i], components)]

(***************************************************************************)
(* linker.js: what each function computes or writes.                       *)
(***************************************************************************)
MapLinkFileLoad(outputFiles) == [i \in 1..Len(outputFiles) |-> LinkFileLoad(outputFiles[i])]

\* One awaited operation of a step: the files and symlinks it puts on disk.
Operation(step, files, symlinks) == [step |-> step, files |-> files, symlinks |-> symlinks]

Perform(disk, op) ==
    [files |-> ApplyFiles(disk.files, op.files), links |-> ApplySymlinks(disk.links, op.symlinks)]

RECURSIVE PerformAll(_, _)
PerformAll(disk, ops) ==
    IF ops = <<>> THEN disk ELSE PerformAll(Perform(disk, Head(ops)), Tail(ops))

Disk == [files |-> fsFiles, links |-> fsLinks]

\* The disk and the pending manifests as a call finds them.
Snapshot == [files |-> fsFiles, links |-> fsLinks, pending |-> pendingManifest]

Before == [files |-> disk0.files, links |-> disk0.links]

\* The write variants perform what the get variants compute.
WriteComponentsDependenciesLinks(step, cwds, npm) ==
    Operation(step, MapLinkFileLoad(GetComponentsDependenciesLinks(cwds, npm)), <<>>)

WriteEntryPointsForComponent(step, c) == Operation(step, GetEntryPointsForComponent(c), <<>>)

\* A node_modules linking that creates no symlink.
LinkComponentsToNodeModulesNoSymlinks(step, components) ==
    Operation(step, NodeModuleLinkerGetLinks(components).files, <<>>)

LinkComponentsToNodeModules(step, components) ==
    Operation(step, NodeModuleLinkerGetLinks(components).files,
                    NodeModuleLinkerGetLinks(components).symlinks)

\* reLinkDirectlyImportedDependencies: the dependency links of the
\* components, then their node_modules entries.
ReLinkDirectlyImportedDependencies(step, components) ==
    IF step = "reLinkLinks"
    THEN <<WriteComponentsDependenciesLinks(step, components, FALSE)>>
    ELSE <<LinkComponentsToNodeModules(step, components)>>

\* Re-linking only when there are at least two dependents.
ReLinkDependentsSeveral(step, components) ==
    LET directDependentComponents == GetAuthoredAndImportedDependentsOfComponents(components)
    IN  IF Len(directDependentComponents) > 1
        THEN ReLinkDirectlyImportedDependencies(step, directDependentComponents)
        ELSE <<>>

\* reLinkDependents: the result of changeDependenciesToRelativeSyntax is not
\* used, so no disk operation comes from it.
ReLinkDependents(step, components) ==
    LET directDependentComponents == GetAuthoredAndImportedDependentsOfComponents(components)
    IN  IF Len(directDependentComponents) > 0
        THEN ReLinkDirectlyImportedDependencies(step, directDependentComponents)
        ELSE <<>>

ReLinkDependentsAll(components) ==
    ReLinkDependents("reLinkLinks", components) \o ReLinkDependents("reLinkNodeModules", components)

GetReLinkDirectlyImportedDependenciesLinks(components) ==
    LET componentsDependenciesLinkFiles ==
            MapLinkFileLoad(GetComponentsDependenciesLinks(components, FALSE))
        nodeModuleLinks == NodeModuleLinkerGetLinks(components)
    IN  [files |-> componentsDependenciesLinkFiles \o nodeModuleLinks.files,
         symlinks |-> nodeModuleLinks.symlinks]

GetReLinkDependentsData(files, components) ==
    LET directDependentComponents == GetAuthoredAndImportedDependentsOfComponents(components)
        data == GetReLinkDirectlyImportedDependenciesLinks(directDependentComponents)
        packageJsonFiles ==
            ChangeDependenciesToRelativeSyntax(files, directDependentComponents, components)
    IN  IF Len(directDependentComponents) > 0
        THEN [files |-> data.files \o packageJsonFiles, symlinks |-> data.symlinks]
        ELSE [files |-> <<>>, symlinks |-> <<>>]

AllComponents(r) == IF r.hasDeps THEN r.comps \o Flatten(r.wdeps) ELSE r.comps

Steps == <<"depLinks", "depEntryPoints", "entryPoints", "nodeModules", "reLinkLinks", "reLinkNodeModules">>

StepNames == SeqToSet(Steps)

StepNo(step) == CHOOSE i \in 1..Len(Steps) : Steps[i] = step

\* linkComponents, step by step: the operations each awaited step starts.
LinkComponentsStep(step, r) ==
    CASE step = "depLinks" -> <<WriteComponentsDependenciesLinks(step, r.cwd, r.npm)>>
      [] step = "depEntryPoints" ->
            IF r.hasDeps
            THEN [i \in 1..Len(Flatten(r.wdeps)) |-> WriteEntryPointsForComponent(step, Flatten(r.wdeps)[i])]
            ELSE <<>>
      [] step = "entryPoints" ->
            IF ~r.wpj
            THEN [i \in 1..Len(r.comps) |-> WriteEntryPointsForComponent(step, r.comps[i])]
            ELSE <<>>
      [] step = "nodeModules" -> <<LinkComponentsToNodeModules(step, AllComponents(r))>>
      [] OTHER -> ReLinkDependents(step, r.comps)

\* getAllComponentsLinks: what each step computes, and the DataToPersist
\* assembled from them.
GetAllComponentsLinksSteps(files, r) ==
    [depLinks |-> MapLinkFileLoad(GetComponentsDependenciesLinks(r.cwd, r.npm)),
     depEntryPoints |->
        IF r.hasDeps
        THEN Flatten([i \in 1..Len(Flatten(r.wdeps)) |-> GetEntryPointsForComponent(Flatten(r.wdeps)[i])])
        ELSE <<>>,
     entryPoints |->
        IF ~r.wpj
        THEN Flatten([i \in 1..Len(r.comps) |-> GetEntryPointsForComponent(r.comps[i])])
        ELSE <<>>,
     nodeModules |-> NodeModuleLinkerGetLinks(AllComponents(r)),
     reLink |-> GetReLinkDependentsData(files, r.comps)]

\* A ChangeSet that leaves out the files the disk already holds.
GetAllComponentsLinksNotOnDisk(files, r) ==
    LET s == GetAllComponentsLinksSteps(files, r)
        all == s.depEntryPoints \o s.entryPoints
                 \o s.depLinks \o s.nodeModules.files \o s.reLink.files
    IN  [files |-> SelectSeq(all, LAMBDA f :
                       ~(f.path \in DOMAIN files /\ files[f.path] = f.content)),
         symlinks |-> s.nodeModules.symlinks \o s.reLink.symlinks]

GetAllComponentsLinks(files, r) ==
    LET s == GetAllComponentsLinksSteps(files, r)
    IN  [files |-> s.depEntryPoints \o s.entryPoints
                     \o s.depLinks \o s.nodeModules.files \o s.reLink.files,
         symlinks |-> s.nodeModules.symlinks \o s.reLink.symlinks]

ApplyDataToPersist(disk, data) ==
    [files |-> ApplyFiles(disk.files, data.files), links |-> ApplySymlinks(disk.links, data.symlinks)]

(***************************************************************************)
(* Calls and their arguments.                                              *)
(***************************************************************************)
NoCall == [op |-> "none", comps |-> <<>>, cwd |-> <<>>, wdeps |-> <<>>,
           hasDeps |-> FALSE, npm |-> FALSE, wpj |-> FALSE]

NoRet == [status |-> "none", error |-> "", defined |-> FALSE,
          files |-> <<>>, symlinks |-> <<>>, components |-> <<>>]

Returned(r) == [NoRet EXCEPT !.status = "ok", !.defined = TRUE,
                             !.files = r.files, !.symlinks = r.symlinks]

ReturnedNothing == [NoRet EXCEPT !.status = "ok"]

Thrown(msg) == [NoRet EXCEPT !.status = "error", !.error = msg]

\* consumer.bitmapIds
BitmapIds == {c \in Comps : origin[c] # None}

InjectiveSeqs(S, n) ==
    {s \in BoundedSeqs(S, n) : \A i, j \in 1..Len(s) : s[i] = s[j] => i = j}

ComponentLists == InjectiveSeqs(Comps, MaxWritten) \ {<<>>}

\* writtenDependencies: null, or one array of dependencies per component.
WrittenDependencies == BoundedSeqs({<<c>> : c \in Comps}, MaxDeps)

LinkRequests ==
    {r \in [op : {"request"}, comps : ComponentLists, cwd : BoundedSeqs(Comps, MaxCwd),
            wdeps : WrittenDependencies, hasDeps : BOOLEAN, npm : BOOLEAN, wpj : BOOLEAN] :
        ~r.hasDeps => r.wdeps = <<>>}

\* The primary components were imported explicitly; the dependencies written
\* beside them own a root directory.
ValidRequest(r) ==
    /\ \A i \in 1..Len(r.comps) : origin[r.comps[i]] = "IMPORTED"
    /\ \A i \in 1..Len(Flatten(r.wdeps)) : origin[Flatten(r.wdeps)[i]] \in {"IMPORTED", "NESTED"}

(***************************************************************************)
(* Initial states: the registry is empty, or tracks every component and    *)
(* the project was linked by an earlier pass.  The components that own a   *)
(* root directory have their manifest materialized there.                  *)
(***************************************************************************)
MaterializedManifest(c) == [path |-> ManifestPath(Dir(c)), content |-> JsonStringify(ManifestObject(c))]

Rooted == SelectSeq(CompOrder, LAMBDA c : origin[c] \in {"IMPORTED", "NESTED"})

UnlinkedDisk ==
    [files |-> ApplyFiles(EmptyDisk, [i \in 1..Len(Rooted) |-> MaterializedManifest(Rooted[i])]),
     links |-> EmptyDisk]

LinkedDisk ==
    ApplyDataToPersist(UnlinkedDisk,
        GetAllComponentsLinks(UnlinkedDisk.files,
            [NoCall EXCEPT !.comps = CompOrder, !.cwd = CompOrder]))

\* The components whose dataToPersist holds a package.json at their rootDir.
WithPendingManifest == {"a", "b"}

Registries ==
    {o \in [Comps -> Origins] : o["a"] # "AUTHORED" /\ o["c"] = "IMPORTED"}
        \cup {[c \in Comps |-> None]}

\* addAction has not been called: nothing registered, nothing written.
AddIdle ==
    [pc |-> "idle", paths |-> <<>>, hasId |-> FALSE, todo |-> {}, rejected |-> {},
     records |-> <<>>, writes |-> 0, persisted |-> <<>>, error |-> ""]

\* No operation has failed.  Otherwise: the step of the operation that failed,
\* its index in the step, and the number of operations performed before it.
NoFailure == [step |-> None, op |-> 0, at |-> 0]

Init ==
    /\ origin \in Registries
    /\ fsFiles = (IF BitmapIds = {} THEN UnlinkedDisk ELSE LinkedDisk).files
    /\ fsLinks = (IF BitmapIds = {} THEN UnlinkedDisk ELSE LinkedDisk).links
    /\ pendingManifest = [c \in Comps |->
          IF c \in WithPendingManifest /\ origin[c] \in {"IMPORTED", "NESTED"}
          THEN JsonStringify(ManifestObject(c)) ELSE [kind |-> "absent"]]
    /\ pc = "idle"
    /\ call = NoCall
    /\ todo = {}
    /\ log = <<>>
    /\ ret = NoRet
    /\ disk0 = [files |-> fsFiles, links |-> fsLinks, pending |-> pendingManifest]
    /\ loaded = {}
    /\ calls = 0
    /\ moves = <<>>
    /\ failure = NoFailure
    /\ add = AddIdle

\* The control flow is free (nothing called yet, or the last call is over).
CanCall == pc \in {"idle", "done"} /\ calls < MaxCalls

\* A call that runs to its end in one step.
Completes(c, disk, r, ops) ==
    /\ call' = c
    /\ fsFiles' = disk.files
    /\ fsLinks' = disk.links
    /\ ret' = r
    /\ log' = ops
    /\ disk0' = Snapshot
    /\ pc' = "done"
    /\ todo' = {}
    /\ calls' = calls + 1
    /\ failure' = NoFailure
    /\ UNCHANGED <<origin, moves, add>>

(***************************************************************************)
(* linkAllToNodeModules                                                    *)
(***************************************************************************)
\* Without the isEmpty check the components are loaded and linked whatever
\* the bitmap holds.
LinkAllToNodeModulesUnchecked ==
    LET componentsIds == SelectSeq(CompOrder, LAMBDA c : c \in BitmapIds)
        op == LinkComponentsToNodeModules("nodeModules", componentsIds)
    IN  [disk |-> Perform(Disk, op),
         ret |-> Returned([files |-> op.files, symlinks |-> op.symlinks]),
         log |-> <<op>>, loaded |-> SeqToSet(componentsIds)]

LinkAllToNodeModules ==
    LET componentsIds == SelectSeq(CompOrder, LAMBDA c : c \in BitmapIds)
        op == LinkComponentsToNodeModules("nodeModules", componentsIds)
    IN  IF componentsIds = <<>>
        THEN [disk |-> Disk, ret |-> Thrown("nothing to link"), log |-> <<>>, loaded |-> {}]
        ELSE [disk |-> Perform(Disk, op),
              ret |-> Returned([files |-> op.files, symlinks |-> op.symlinks]),
              log |-> <<op>>, loaded |-> SeqToSet(componentsIds)]

linkAllToNodeModules ==
    /\ CanCall
    /\ Completes([NoCall EXCEPT !.op = "linkAllToNodeModules"],
                 LinkAllToNodeModules.disk, LinkAllToNodeModules.ret, LinkAllToNodeModules.log)
    /\ loaded' = LinkAllToNodeModules.loaded
    /\ UNCHANGED pendingManifest

(***************************************************************************)
(* writeLinksInDist and getLinksInDistToWrite                              *)
(***************************************************************************)
NotImported == "writeLinksInDist should get called on imported components only"

\* packageJson.updateAttribute as an operation: the patched manifest file.
UpdateAttributeOperation(files, rootDir, attr, value) ==
    Operation("manifest",
        IF ManifestPath(rootDir) \in DOMAIN files
        THEN <<[path |-> ManifestPath(rootDir),
                content |-> UpdateAttribute(files, rootDir, attr, value)[ManifestPath(rootDir)]]>>
        ELSE <<>>,
        <<>>)

\* The rootDir check made only after the node_modules links.
WriteLinksInDistLateCheck(c) ==
    LET links == WriteComponentsDependenciesLinks("depLinks", <<c>>, FALSE)
        newMainFile == CalculateMainDistFile(c)
        manifest == UpdateAttributeOperation(Perform(Disk, links).files, RootDir(c), "main", newMainFile)
        nodeModules == LinkComponentsToNodeModules("nodeModules", <<c>>)
        ops == <<links, manifest, nodeModules, WriteEntryPointsForComponent("entryPoints", c)>>
    IN  IF RootDir(c) = None
        THEN [disk |-> PerformAll(Disk, <<links, nodeModules>>), ret |-> Thrown(NotImported),
              log |-> <<links, nodeModules>>]
        ELSE [disk |-> PerformAll(Disk, ops), ret |-> ReturnedNothing, log |-> ops]

WriteLinksInDist(c) ==
    LET links == WriteComponentsDependenciesLinks("depLinks", <<c>>, FALSE)
        newMainFile == CalculateMainDistFile(c)
        manifest == UpdateAttributeOperation(Perform(Disk, links).files, RootDir(c), "main", newMainFile)
        ops == <<links, manifest,
                 LinkComponentsToNodeModules("nodeModules", <<c>>),
                 WriteEntryPointsForComponent("entryPoints", c)>>
    IN  IF RootDir(c) = None
        THEN [disk |-> Perform(Disk, links), ret |-> Thrown(NotImported), log |-> <<links>>]
        ELSE [disk |-> PerformAll(Disk, ops), ret |-> ReturnedNothing, log |-> ops]

writeLinksInDist(c) ==
    /\ CanCall
    /\ c \in BitmapIds
    /\ Completes([NoCall EXCEPT !.op = "writeLinksInDist", !.comps = <<c>>],
                 WriteLinksInDist(c).disk, WriteLinksInDist(c).ret, WriteLinksInDist(c).log)
    /\ UNCHANGED <<pendingManifest, loaded>>

\* The pending package.json is parsed and its main set, but what is written
\* back is the stringified package-json module, not the parsed object.  The
\* files and symlinks collected are not returned.
GetLinksInDistToWrite(c) ==
    LET files == MapLinkFileLoad(GetComponentsDependenciesLinks(<<c>>, FALSE))
        newMainFile == CalculateMainDistFile(c)
        packageJsonFile == pendingManifest[c]
        packageJsonParsed == [JsonParse(packageJsonFile) EXCEPT !.main = newMainFile]
        results == NodeModuleLinkerGetLinks(<<c>>)
        entryPoints == GetEntryPointsForComponent(c)
    IN  IF RootDir(c) = None
        THEN [ret |-> Thrown(NotImported), pending |-> packageJsonFile,
              log |-> <<Operation("depLinks", files, <<>>)>>]
        ELSE [ret |-> ReturnedNothing,
              pending |-> IF packageJsonFile.kind # "absent"
                          THEN JsonStringify(PackageJsonModule)
                          ELSE packageJsonFile,
              log |-> <<Operation("depLinks", files, <<>>),
                        Operation("manifest",
                            IF packageJsonFile.kind # "absent"
                            THEN <<[path |-> ManifestPath(RootDir(c)),
                                    content |-> JsonStringify(PackageJsonModule)]>>
                            ELSE <<>>, <<>>),
                        Operation("nodeModules", results.files, results.symlinks),
                        Operation("entryPoints", entryPoints, <<>>)>>]

getLinksInDistToWrite(c) ==
    /\ CanCall
    /\ c \in BitmapIds
    /\ Completes([NoCall EXCEPT !.op = "getLinksInDistToWrite", !.comps = <<c>>],
                 Disk, GetLinksInDistToWrite(c).ret, GetLinksInDistToWrite(c).log)
    /\ pendingManifest' = [pendingManifest EXCEPT ![c] = GetLinksInDistToWrite(c).pending]
    /\ UNCHANGED loaded

(***************************************************************************)
(* reLinkDependents and getReLinkDependentsData                            *)
(***************************************************************************)
reLinkDependents(components) ==
    /\ CanCall
    /\ BitmapIds # {}
    /\ Completes([NoCall EXCEPT !.op = "reLinkDependents", !.comps = components],
                 PerformAll(Disk, ReLinkDependentsAll(components)),
                 ReturnedNothing,
                 ReLinkDependentsAll(components))
    /\ UNCHANGED <<pendingManifest, loaded>>

getReLinkDependentsData(components) ==
    /\ CanCall
    /\ BitmapIds # {}
    /\ Completes([NoCall EXCEPT !.op = "getReLinkDependentsData", !.comps = components],
                 Disk, Returned(GetReLinkDependentsData(fsFiles, components)), <<>>)
    /\ UNCHANGED <<pendingManifest, loaded>>

(***************************************************************************)
(* getAllComponentsLinks and linkComponents                                *)
(***************************************************************************)
\* What getAllComponentsLinks computes, in the order it computes it.
GetAllComponentsLinksOrder(files, r) ==
    LET s == GetAllComponentsLinksSteps(files, r)
    IN  <<Operation("depLinks", s.depLinks, <<>>)>>
        \o (IF r.hasDeps THEN <<Operation("depEntryPoints", s.depEntryPoints, <<>>)>> ELSE <<>>)
        \o (IF ~r.wpj THEN <<Operation("entryPoints", s.entryPoints, <<>>)>> ELSE <<>>)
        \o <<Operation("nodeModules", s.nodeModules.files, s.nodeModules.symlinks),
             Operation("reLinkLinks", s.reLink.files, s.reLink.symlinks)>>

getAllComponentsLinks(r) ==
    /\ CanCall
    /\ ValidRequest(r)
    /\ Completes([r EXCEPT !.op = "getAllComponentsLinks"],
                 Disk, Returned(GetAllComponentsLinks(fsFiles, r)),
                 GetAllComponentsLinksOrder(fsFiles, r))
    /\ UNCHANGED <<pendingManifest, loaded>>

linkComponents(r) ==
    /\ CanCall
    /\ ValidRequest(r)
    /\ call' = [r EXCEPT !.op = "linkComponents"]
    /\ pc' = Steps[1]
    /\ todo' = 1..Len(LinkComponentsStep(Steps[1], r))
    /\ log' = <<>>
    /\ ret' = NoRet
    /\ disk0' = Snapshot
    /\ calls' = calls + 1
    /\ failure' = NoFailure
    /\ UNCHANGED <<origin, fsFiles, fsLinks, pendingManifest, loaded, moves, add>>

\* The step whose operations are in progress: the awaited one, or the one
\* whose failure rejected the call.
CurrentStep == IF pc = "failed" THEN failure.step ELSE pc

\* One operation of the current step; the operations of a step run in any
\* order.  The operations Promise.all started keep running when one of them
\* has failed and the call is rejected: nothing cancels them.
PerformStepOperation ==
    /\ pc \in StepNames \cup {"failed"}
    /\ \E i \in todo :
          LET op == LinkComponentsStep(CurrentStep, call)[i]
          IN  /\ fsFiles' = Perform(Disk, op).files
              /\ fsLinks' = Perform(Disk, op).links
              /\ log' = Append(log, op)
              /\ todo' = todo \ {i}
    /\ UNCHANGED <<origin, pendingManifest, pc, call, ret, disk0, loaded, calls, moves, failure, add>>

WriteFailed == "write failed"

\* A failure that undoes what the call has written.
FailStepOperationRollback ==
    /\ pc \in StepNames
    /\ \E i \in todo :
          /\ failure' = [step |-> pc, op |-> i, at |-> Len(log)]
          /\ todo' = todo \ {i}
    /\ pc' = "failed"
    /\ ret' = Thrown(WriteFailed)
    /\ fsFiles' = disk0.files
    /\ fsLinks' = disk0.links
    /\ UNCHANGED <<origin, pendingManifest, call, log, disk0, loaded, calls, moves, add>>

\* One operation of the awaited step fails: the await throws, there is no
\* catch, so linkComponents rejects and starts no further step.  Nothing that
\* was written is undone.
FailStepOperation ==
    /\ pc \in StepNames
    /\ \E i \in todo :
          /\ failure' = [step |-> pc, op |-> i, at |-> Len(log)]
          /\ todo' = todo \ {i}
    /\ pc' = "failed"
    /\ ret' = Thrown(WriteFailed)
    /\ UNCHANGED <<origin, fsFiles, fsLinks, pendingManifest, call, log, disk0, loaded, calls, moves, add>>

\* A step that is not awaited: the next one starts at once.
NotAwaited == TRUE

\* await: the operations the step started have all finished.
Awaited == todo = {}

\* The awaited step is over: start the next one, or return allComponents.
NextStep ==
    /\ pc \in StepNames
    /\ Awaited
    /\ IF StepNo(pc) = Len(Steps)
       THEN /\ pc' = "done"
            /\ ret' = [NoRet EXCEPT !.status = "ok", !.defined = TRUE,
                                    !.components = AllComponents(call)]
            /\ todo' = todo
       ELSE /\ pc' = Steps[StepNo(pc) + 1]
            /\ todo' = todo \cup 1..Len(LinkComponentsStep(Steps[StepNo(pc) + 1], call))
            /\ ret' = ret
    /\ UNCHANGED <<origin, fsFiles, fsLinks, pendingManifest, call, log, disk0, loaded, calls, moves, failure, add>>

(***************************************************************************)
(* The registry changes the placement of a dependency between NESTED and   *)
(* IMPORTED (it is imported directly, or becomes a dependency only) and    *)
(* the component is materialized, with its manifest, at its new root.      *)
(***************************************************************************)
OtherPlacement(o) == IF o = "NESTED" THEN "IMPORTED" ELSE "NESTED"

ChangePlacement(t) ==
    /\ pc \in {"idle", "done"}
    /\ calls < MaxCalls
    /\ Len(moves) < MaxMoves
    /\ origin[t] \in {"NESTED", "IMPORTED"}
    /\ \E d \in Comps : t \in Dependencies(d)
    /\ origin' = [origin EXCEPT ![t] = OtherPlacement(@)]
    /\ fsFiles' = WriteFile(fsFiles,
            [path |-> ManifestPath(<<OtherPlacement(origin[t]), t>>),
             content |-> JsonStringify(ManifestObject(t))])
    /\ disk0' = [files |-> fsFiles', links |-> fsLinks, pending |-> pendingManifest]
    /\ moves' = Append(moves, t)
    /\ pc' = "idle"
    /\ call' = NoCall
    /\ ret' = NoRet
    /\ log' = <<>>
    /\ loaded' = {}
    /\ UNCHANGED <<fsLinks, pendingManifest, todo, calls, failure, add>>

Next ==
    \/ linkAllToNodeModules
    \/ \E c \in Comps : writeLinksInDist(c)
    \/ \E c \in Comps : getLinksInDistToWrite(c)
    \/ CanCall /\ \E components \in ComponentLists : reLinkDependents(components)
    \/ CanCall /\ \E components \in ComponentLists : getReLinkDependentsData(components)
    \/ CanCall /\ \E r \in LinkRequests : getAllComponentsLinks(r)
    \/ CanCall /\ \E r \in LinkRequests : linkComponents(r)
    \/ PerformStepOperation
    \/ FailStepOperation
    \/ NextStep
    \/ \E t \in Comps : ChangePlacement(t)

Spec == Init /\ [][Next]_vars

(***************************************************************************)
(* addAction (api/consumer/lib/add.js).  A path is a file, a directory     *)
(* (empty, with one file, with several files) or does not exist.           *)
(***************************************************************************)
MaxPaths == 2

PathKinds == {"missing", "file", "emptyDir", "oneFileDir", "manyFilesDir"}

ComponentPaths == BoundedSeqs(PathKinds, MaxPaths)

ManyPathsWithId ==
    "When specifying more than one path, the ID is automatically generated"

DoesNotExist == "The path doesn't exist"

DirectoryIsEmpty == "The directory is empty, nothing to add"

SpecifyTheId == "Please specify the ID of your component"

\* The error addBitMapRecords throws for the path, or "" when it registers it.
AddBitMapRecordsError(kind, hasId) ==
    CASE kind = "missing" -> DoesNotExist
      [] kind = "emptyDir" -> DirectoryIsEmpty
      [] kind = "manyFilesDir" /\ ~hasId -> SpecifyTheId
      [] OTHER -> ""

\* addAction up to 'await Promise.all': the check of the arguments, then the
\* map starts addBitMapRecords for every path.  For a file, and for a path
\* that does not exist, addBitMapRecords runs to its end at once (lstatSync,
\* addToBitMap); for a directory it is suspended at 'await glob'.
addAction(componentPaths, hasId) ==
    /\ add.pc = "idle"
    /\ IF Len(componentPaths) > 1 /\ hasId
       THEN add' = [AddIdle EXCEPT !.pc = "failed", !.paths = componentPaths,
                                   !.hasId = hasId, !.error = ManyPathsWithId]
       ELSE add' = [AddIdle EXCEPT
                !.pc = "awaiting", !.paths = componentPaths, !.hasId = hasId,
                !.todo = {i \in 1..Len(componentPaths) :
                            componentPaths[i] \notin {"missing", "file"}},
                !.rejected = {i \in 1..Len(componentPaths) : componentPaths[i] = "missing"},
                !.records = SelectSeq([i \in 1..Len(componentPaths) |-> i],
                                LAMBDA i : componentPaths[i] = "file")]
    /\ UNCHANGED linkerVars

\* glob returns for a directory: addBitMapRecords throws or calls addToBitMap.
\* It does so as well when addAction has been rejected by another path.
addBitMapRecords(i) ==
    /\ add.pc \in {"awaiting", "failed"}
    /\ i \in add.todo
    /\ IF AddBitMapRecordsError(add.paths[i], add.hasId) # ""
       THEN add' = [add EXCEPT !.todo = @ \ {i}, !.rejected = @ \cup {i}]
       ELSE add' = [add EXCEPT !.todo = @ \ {i}, !.records = Append(@, i)]
    /\ UNCHANGED linkerVars

\* Promise.all rejects with the first rejection: addAction rejects with it.
addActionRejects ==
    /\ add.pc = "awaiting"
    /\ \E i \in add.rejected :
          add' = [add EXCEPT !.pc = "failed",
                             !.error = AddBitMapRecordsError(add.paths[i], add.hasId)]
    /\ UNCHANGED linkerVars

\* Writing the bitmap whether or not a path was rejected.
BitMapWriteAnyway ==
    /\ add.pc = "awaiting"
    /\ add.todo = {}
    /\ add' = [add EXCEPT !.pc = "done", !.writes = @ + 1, !.persisted = add.records]
    /\ UNCHANGED linkerVars

\* Promise.all is fulfilled: bitMap.write(), then return added.
BitMapWrite ==
    /\ add.pc = "awaiting"
    /\ add.todo = {}
    /\ add.rejected = {}
    /\ add' = [add EXCEPT !.pc = "done", !.writes = @ + 1, !.persisted = add.records]
    /\ UNCHANGED linkerVars

InitAdd == Init /\ BitmapIds = {}

NextAdd ==
    \/ \E componentPaths \in ComponentPaths, hasId \in BOOLEAN : addAction(componentPaths, hasId)
    \/ \E i \in 1..MaxPaths : addBitMapRecords(i)
    \/ addActionRejects
    \/ BitMapWrite

SpecAdd == InitAdd /\ [][NextAdd]_vars

(***************************************************************************)
(* Claims.                                                                 *)
(***************************************************************************)
LinkComponentsDone == pc = "done" /\ call.op = "linkComponents" /\ ret.status = "ok"

Done(op) == pc = "done" /\ call.op = op

DoneOk(op) == Done(op) /\ ret.status = "ok"

StepsOf(ops) == [i \in 1..Len(ops) |-> ops[i].step]

\* Number of operations of the given step performed so far.
CountStep(step) == Cardinality({i \in 1..Len(log) : log[i].step = step})

\* The files the call has written (eager) or collected (deferred).
LoggedFiles == UNION {SeqToSet(log[i].files) : i \in 1..Len(log)}

IsEntryPointOf(f, c) == f.path = EntryPointPath(c) /\ f.content.kind = "entry"

\* C1: the files and symlinks linkComponents leaves on disk equal, path for
\* path, the disk obtained by applying, in list order, the files and symlinks
\* of the DataToPersist getAllComponentsLinks returns for the same request
\* and registry state.
C1_EagerEqualsDeferred ==
    LinkComponentsDone =>
        Disk = ApplyDataToPersist(Before, GetAllComponentsLinks(disk0.files, call))

\* C2: in linkComponents the operations are performed in step order, and a
\* step starts only when every operation of every earlier step has finished:
\* dependency links, then dependency entry points, then primary entry points,
\* then node_modules symlinks, then re-link propagation.  getAllComponentsLinks
\* computes its steps in the same order.
C2_StepOrderWithBarriers ==
    /\ call.op = "linkComponents" =>
          /\ \A i, j \in 1..Len(log) : i < j => StepNo(log[i].step) <= StepNo(log[j].step)
          /\ \A k \in 1..Len(Steps) :
                (pc = Steps[k] \/ CountStep(Steps[k]) > 0) =>
                    \A h \in 1..(k - 1) :
                        CountStep(Steps[h]) = Len(LinkComponentsStep(Steps[h], call))
    /\ Done("getAllComponentsLinks") =>
          \A i, j \in 1..Len(log) : i < j => StepNo(log[i].step) < StepNo(log[j].step)

\* A run of linkComponents in which every step performed an operation and the
\* primary entry points were fanned out over two components.
C2_Witness ==
    /\ LinkComponentsDone
    /\ \A k \in 1..Len(Steps) : CountStep(Steps[k]) > 0
    /\ CountStep("entryPoints") = 2
    /\ CountStep("depEntryPoints") = 2

\* C3: linkAllToNodeModules on a consumer that tracks no component fails with
\* 'nothing to link' before any component is loaded, and writes no file and
\* no symlink.
C3_NothingToLink ==
    (Done("linkAllToNodeModules") /\ BitmapIds = {}) =>
        /\ ret.status = "error"
        /\ ret.error = "nothing to link"
        /\ loaded = {}
        /\ log = <<>>
        /\ Disk = Before

C3_Witness == Done("linkAllToNodeModules") /\ BitmapIds = {} /\ ret.status = "error"

\* C4: with writePackageJson true neither linkComponents nor
\* getAllComponentsLinks writes or returns an entry-point file for a member of
\* writtenComponents; with writePackageJson false they do so for every member.
C4_PrimaryEntryPointsSkipped ==
    /\ LinkComponentsDone =>
          \A c \in SeqToSet(call.comps) :
                (\E f \in LoggedFiles : IsEntryPointOf(f, c)) <=> ~call.wpj
    /\ DoneOk("getAllComponentsLinks") =>
          \A c \in SeqToSet(call.comps) :
                (\E f \in SeqToSet(ret.files) : IsEntryPointOf(f, c)) <=> ~call.wpj

\* C5: with writePackageJson true neither linkComponents nor
\* getAllComponentsLinks writes or returns an entry-point file for a member of
\* writtenDependencies.
C5_DependencyEntryPointsSkipped ==
    /\ (LinkComponentsDone /\ call.wpj) =>
          \A c \in SeqToSet(Flatten(call.wdeps)) :
                ~ \E f \in LoggedFiles : IsEntryPointOf(f, c)
    /\ (DoneOk("getAllComponentsLinks") /\ call.wpj) =>
          \A c \in SeqToSet(Flatten(call.wdeps)) :
                ~ \E f \in SeqToSet(ret.files) : IsEntryPointOf(f, c)

OnlyMainChanged(old, new, c) ==
    /\ new.kind = old.kind
    /\ new.main = CalculateMainDistFile(c)
    /\ new.name = old.name
    /\ new.dependencies = old.dependencies

\* C6: after writeLinksInDist the manifest at the component's rootDir, and
\* after getLinksInDistToWrite the pending package.json of the component (when
\* it has one), has main equal to the computed dist main file and every other
\* field as before the call.
C6_ManifestOnlyMainChanges ==
    /\ DoneOk("writeLinksInDist") =>
          OnlyMainChanged(disk0.files[ManifestPath(RootDir(call.comps[1]))],
                          fsFiles[ManifestPath(RootDir(call.comps[1]))], call.comps[1])
    /\ (DoneOk("getLinksInDistToWrite") /\ disk0.pending[call.comps[1]].kind # "absent") =>
          OnlyMainChanged(disk0.pending[call.comps[1]],
                          pendingManifest[call.comps[1]], call.comps[1])

\* C7: writeLinksInDist and getLinksInDistToWrite on a component whose
\* componentMap has no rootDir fail with an error; no manifest is updated, no
\* node_modules symlink is created or computed, and no entry-point file is
\* written or computed.
C7_NoRootDirFails ==
    ((Done("writeLinksInDist") \/ Done("getLinksInDistToWrite")) /\ RootDir(call.comps[1]) = None) =>
        /\ ret.status = "error"
        /\ ret.error = NotImported
        /\ \A i \in 1..Len(log) :
              /\ log[i].step \notin {"manifest", "nodeModules", "entryPoints"}
              /\ log[i].symlinks = <<>>
              /\ \A f \in SeqToSet(log[i].files) : f.content.kind \notin {"manifest", "entry"}
        /\ fsLinks = disk0.links
        /\ pendingManifest = disk0.pending
        /\ \A q \in DOMAIN fsFiles :
              fsFiles[q].kind \in {"manifest", "entry"} =>
                  q \in DOMAIN disk0.files /\ fsFiles[q] = disk0.files[q]
        /\ ret.files = <<>>
        /\ ret.symlinks = <<>>

\* writeLinksInDist threw for a component without rootDir, after it had
\* written the component's dependency links.
C7_Witness ==
    /\ Done("writeLinksInDist")
    /\ RootDir(call.comps[1]) = None
    /\ ret.status = "error"
    /\ StepsOf(log) = <<"depLinks">>
    /\ log[1].files # <<>>

\* The components that are AUTHORED or IMPORTED and have a dependency edge
\* onto one of the components the call was given.
DirectDependents ==
    {d \in Comps : /\ origin[d] \in {"AUTHORED", "IMPORTED"}
                   /\ Dependencies(d) \cap SeqToSet(call.comps) # {}}

\* The component in whose directory the path lies.
OwnerOf(path) == path[1][2]

\* The disk after the returned files and symlinks are persisted.
Persisted == ApplyDataToPersist(Before, [files |-> ret.files, symlinks |-> ret.symlinks])

\* C8: after one reLinkDependents run no dependent of the changed components
\* holds a redirect file or a symlink that differs from what generation
\* produces for the registry state, and a second run on the same state
\* changes no file, symlink or manifest.
C8_ReLinkFixedPoint ==
    DoneOk("reLinkDependents") =>
        /\ \A d \in DirectDependents :
              /\ \A t \in Dependencies(d) :
                    /\ <<Dir(d), LinkFileName(t)>> \in DOMAIN fsFiles
                    /\ fsFiles[<<Dir(d), LinkFileName(t)>>] = LinkContent(t, FALSE)
              /\ d \in DOMAIN fsLinks
              /\ fsLinks[d] = Dir(d)
        /\ PerformAll(Disk, ReLinkDependentsAll(call.comps)) = Disk

\* reLinkDependents ran after a placement change and regenerated a stale
\* redirect file of a dependent.
C8_Witness ==
    /\ DoneOk("reLinkDependents")
    /\ moves # <<>>
    /\ DirectDependents # {}
    /\ fsFiles # disk0.files

\* C9: reLinkDependents and getReLinkDependentsData write or return files and
\* symlinks only for the direct AUTHORED or IMPORTED dependents of the changed
\* components; the files and symlinks of every other component (NESTED
\* dependents, transitive dependents) are unchanged, and when there is no
\* such dependent nothing is written and the returned files and symlinks are
\* empty.
C9_PropagationConfined ==
    /\ DoneOk("reLinkDependents") =>
          /\ \A q \in DOMAIN fsFiles :
                OwnerOf(q) \notin DirectDependents =>
                    q \in DOMAIN disk0.files /\ fsFiles[q] = disk0.files[q]
          /\ \A n \in DOMAIN fsLinks :
                n \notin DirectDependents =>
                    n \in DOMAIN disk0.links /\ fsLinks[n] = disk0.links[n]
          /\ \A i \in 1..Len(log) :
                /\ \A f \in SeqToSet(log[i].files) : OwnerOf(f.path) \in DirectDependents
                /\ \A l \in SeqToSet(log[i].symlinks) : l.name \in DirectDependents
          /\ DirectDependents = {} => (log = <<>> /\ Disk = Before)
    /\ DoneOk("getReLinkDependentsData") =>
          /\ \A f \in SeqToSet(ret.files) : OwnerOf(f.path) \in DirectDependents
          /\ \A l \in SeqToSet(ret.symlinks) : l.name \in DirectDependents
          /\ DirectDependents = {} => (ret.files = <<>> /\ ret.symlinks = <<>>)
          /\ Disk = Before

\* reLinkDependents for "a" re-linked its direct dependent "b" and left the
\* transitive dependent "c" alone.
C9_Witness ==
    /\ DoneOk("reLinkDependents")
    /\ call.comps = <<"a">>
    /\ DirectDependents = {"b"}
    /\ origin["c"] = "IMPORTED"
    /\ Disk # Before

\* The form in which a component of the given placement is referred to.
ExpectedForm(t) == IF origin[t] = "NESTED" THEN "relative-path" ELSE "package-name"

\* Dependent d refers to t in the form of t's placement, in its redirect file
\* and in the dependency declaration of its manifest (when it has one).
RefersInExpectedForm(files, d, t) ==
    /\ <<Dir(d), LinkFileName(t)>> \in DOMAIN files
    /\ files[<<Dir(d), LinkFileName(t)>>].kind = "link"
    /\ files[<<Dir(d), LinkFileName(t)>>].ref = ExpectedForm(t)
    /\ HasManifestOnDisk(files, d) =>
          files[ManifestPath(RootDir(d))].dependencies[t] = ExpectedForm(t)

\* C10: when the placement of T changed (NESTED to IMPORTED, or IMPORTED to
\* NESTED) and propagation runs for T, every dependent D with an edge onto T
\* refers to T in package-name form if T is now IMPORTED and in relative-path
\* form if T is now NESTED.
C10_PlacementDrivenPropagation ==
    \A t \in SeqToSet(moves) \cap SeqToSet(call.comps) :
        \A d \in {x \in DirectDependents : t \in Dependencies(x)} :
            /\ DoneOk("reLinkDependents") => RefersInExpectedForm(fsFiles, d, t)
            /\ DoneOk("getReLinkDependentsData") => RefersInExpectedForm(Persisted.files, d, t)

\* The components a linking pass links into node_modules: the written
\* components and dependencies, the re-linked dependents, or every tracked
\* component.
LinkedInPass ==
    CASE call.op = "linkComponents" ->
            SeqToSet(call.comps) \cup DirectDependents
                \cup (IF call.hasDeps THEN SeqToSet(Flatten(call.wdeps)) ELSE {})
      [] call.op = "reLinkDependents" -> DirectDependents
      [] OTHER -> BitmapIds

LinkingPassDone ==
    LinkComponentsDone \/ DoneOk("reLinkDependents") \/ DoneOk("linkAllToNodeModules")

\* C11: after a linking pass (linkComponents, reLinkDependents,
\* linkAllToNodeModules) node_modules holds one entry per linked component,
\* pointing at the component's current root (an entry that pointed elsewhere
\* is overwritten); the pass creates no two symlinks of one name with
\* different targets; and an entry whose component root is unchanged keeps
\* its target.
C11_SymlinkUniqueAndStable ==
    LinkingPassDone =>
        /\ \A c \in LinkedInPass : c \in DOMAIN fsLinks /\ fsLinks[c] = Dir(c)
        /\ \A i, j \in 1..Len(log) :
              \A l \in SeqToSet(log[i].symlinks), k \in SeqToSet(log[j].symlinks) :
                    l.name = k.name => l.target = k.target
        /\ \A n \in DOMAIN disk0.links :
              disk0.links[n] = Dir(n) => (n \in DOMAIN fsLinks /\ fsLinks[n] = Dir(n))
        /\ \A n \in DOMAIN fsLinks \ LinkedInPass :
              n \in DOMAIN disk0.links /\ fsLinks[n] = disk0.links[n]

\* A pass overwrote the stale entry of a component whose root had changed,
\* and left the entries of the other components as they were.
C11_Witness ==
    /\ LinkingPassDone
    /\ \E c \in LinkedInPass : disk0.links[c] # Dir(c) /\ fsLinks[c] = Dir(c)
    /\ \E n \in DOMAIN fsLinks : n \notin LinkedInPass /\ fsLinks[n] = disk0.links[n]

\* The ChangeSet a finished deferred call returned.
ReturnedData == [files |-> ret.files, symlinks |-> ret.symlinks]

Destinations(op) == {op.files[i].path : i \in 1..Len(op.files)}

\* C13: in linkComponents no two operations started together by the
\* Promise.all of a step (the entry points of the flattened
\* writtenDependencies, the entry points of writtenComponents) write the same
\* destination path.
C13_DisjointDestinations ==
    (call.op = "linkComponents" /\ pc \in {"depEntryPoints", "entryPoints"}) =>
        \A i, j \in 1..Len(LinkComponentsStep(pc, call)) :
            i # j => Destinations(LinkComponentsStep(pc, call)[i])
                        \cap Destinations(LinkComponentsStep(pc, call)[j]) = {}

\* The components the call generated dependency links or entry points for:
\* the members of componentsWithDependencies that have a dependency, of
\* writtenDependencies, and of writtenComponents.
Touched ==
    {c \in SeqToSet(call.cwd) : Dependencies(c) # {}}
        \cup SeqToSet(call.comps)
        \cup (IF call.hasDeps THEN SeqToSet(Flatten(call.wdeps)) ELSE {})

\* The names of the symlinks created or computed by the node_modules step.
NodeModulesStepNames ==
    UNION {{log[i].symlinks[k].name : k \in 1..Len(log[i].symlinks)} :
              i \in {h \in 1..Len(log) : log[h].step = "nodeModules"}}

\* C16: every component linkComponents generated dependency links or entry
\* points for gets a symlink in the node_modules step (in
\* getAllComponentsLinks as well) and is in the list linkComponents returns,
\* which is writtenComponents followed by the flattened writtenDependencies.
C16_TouchedComponentsCovered ==
    /\ LinkComponentsDone =>
          /\ Touched \subseteq NodeModulesStepNames
          /\ Touched \subseteq SeqToSet(ret.components)
          /\ ret.components =
                call.comps \o (IF call.hasDeps THEN Flatten(call.wdeps) ELSE <<>>)
    /\ DoneOk("getAllComponentsLinks") => Touched \subseteq NodeModulesStepNames

\* C17: when writeLinksInDist fails its rootDir precondition the disk is as it
\* was before the call, and no file or symlink has been written.
C17_FailedWriteLinksInDistWritesNothing ==
    (Done("writeLinksInDist") /\ ret.status = "error") =>
        /\ Disk = Before
        /\ \A i \in 1..Len(log) : log[i].files = <<>> /\ log[i].symlinks = <<>>

\* What writeLinksInDist writes for the component apart from the manifest:
\* the dependency links, the node_modules files and symlinks, the entry point.
WrittenInDist(c) ==
    LET ops == SelectSeq(WriteLinksInDist(c).log, LAMBDA op : op.step # "manifest")
    IN  [files |-> Flatten([i \in 1..Len(ops) |-> ops[i].files]),
         symlinks |-> Flatten([i \in 1..Len(ops) |-> ops[i].symlinks])]

\* C18: for a component with a rootDir, getLinksInDistToWrite returns a result
\* whose files and symlinks contain the dependency link files, the
\* node_modules files and symlinks and the entry-point files writeLinksInDist
\* writes for the component.
C18_GetLinksInDistToWriteReturns ==
    DoneOk("getLinksInDistToWrite") =>
        /\ ret.defined
        /\ SeqToSet(WrittenInDist(call.comps[1]).files) \subseteq SeqToSet(ret.files)
        /\ SeqToSet(WrittenInDist(call.comps[1]).symlinks) \subseteq SeqToSet(ret.symlinks)

\* C19: the ChangeSet getAllComponentsLinks returns holds at most one symlink
\* entry per component id.
C19_OneSymlinkEntryPerComponent ==
    DoneOk("getAllComponentsLinks") =>
        \A i, j \in 1..Len(ret.symlinks) :
            ret.symlinks[i].name = ret.symlinks[j].name => i = j

\* linkComponents was rejected by the failure of one of its operations.
LinkComponentsFailed == call.op = "linkComponents" /\ pc = "failed"

C15_FailureAbortsTheStep ==
    LinkComponentsFailed =>
        \A i \in 1..Len(log) :
            i > failure.at => (log[i].files = <<>> /\ log[i].symlinks = <<>>)

\* The request addAction must refuse: several paths with an id, or a path
\* that does not exist, is an empty directory, or is a directory of several
\* files given without an id.
AddMustFail ==
    \/ Len(add.paths) > 1 /\ add.hasId
    \/ \E i \in 1..Len(add.paths) :
          \/ add.paths[i] \in {"missing", "emptyDir"}
          \/ add.paths[i] = "manyFilesDir" /\ ~add.hasId

\* C20: addAction calls bitMap.write at most once, and only when every path
\* of componentPaths was registered without error (the bitmap written then
\* holds a record for each path); a finished call that did not fail has
\* written; and for a request that must fail, the call never returns and
\* bitMap.write is never called.
C20_AddActionAllOrNothing ==
    /\ add.writes <= 1
    /\ add.writes = 1 =>
          /\ add.rejected = {}
          /\ add.todo = {}
          /\ SeqToSet(add.persisted) = 1..Len(add.paths)
          /\ Len(add.persisted) = Len(add.paths)
    /\ add.pc = "done" => add.writes = 1
    /\ add.pc = "failed" => (add.writes = 0 /\ add.error # "")
    /\ AddMustFail => (add.pc # "done" /\ add.writes = 0 /\ add.persisted = <<>>)
    /\ (~AddMustFail /\ add.pc # "idle") => add.pc # "failed"

\* addAction registered a file and a directory of one file and wrote the
\* bitmap.
C20_Witness ==
    /\ add.pc = "done"
    /\ add.writes = 1
    /\ add.paths = <<"oneFileDir", "file">>
    /\ add.persisted = <<2, 1>>

====
